---- MODULE Spec2Model ----
(***************************************************************************)
(* Model of the spreadsheet evaluator (src/spreadsheet.py) and of its      *)
(* column-label codec (src/utills.py).                                     *)
(*                                                                         *)
(* Text is a sequence of one-character strings: "=A1+5" is                 *)
(* <<"=", "A", "1", "+", "5">>.  The characters of the model are the ASCII *)
(* letters, the ASCII digits, the blank, "+", "-", "=" and "_" (any other  *)
(* character that is neither letter, digit, blank nor operator behaves as  *)
(* "_" does in a label; inside int() the underscore is the digit separator *)
(* of Python, as in "1_0").                                                *)
(*                                                                         *)
(* The code raises ValueError for every failure of its own but the         *)
(* circular reference; the kinds below are told apart by the message the   *)
(* code builds, under the names the specification gives them:              *)
(*   "InvalidLabel"      ValueError("Invalid character: ...")              *)
(*   "InvalidIndex"      ValueError("Only non-negative numbers ...")       *)
(*   "InvalidReference"  ValueError("Invalid reference: ...")              *)
(*   "OutOfRange"        ValueError("Reference out of range: ...")         *)
(*   "InvalidToken"      ValueError("Invalid token: ...")                  *)
(*   "InvalidFormula"    ValueError("Invalid formula: ...")                *)
(*   "InvalidOperator"   ValueError("Invalid operator ...")                *)
(*   "InvalidCellValue"  ValueError("Invalid cell value at r,c: ...")      *)
(*   "CircularReference" CircularReferenceError("... at cell <label>")     *)
(* and three errors are raised by the interpreter:                         *)
(*   "IndexError"        evaluate_cell(r, c) called with an index outside  *)
(*                       the tables                                        *)
(*   "RecursionError"    the calls are nested deeper than                  *)
(*                       sys.getrecursionlimit() allows                    *)
(*   "DigitLimit"        ValueError("Exceeds the limit (4300 digits) for   *)
(*                       integer string conversion ..."): int() refuses    *)
(*                       the row digits of a reference, and nothing        *)
(*                       catches it                                        *)
(***************************************************************************)
EXTENDS Integers, Sequences, FiniteSets, TLC

\* ------------------------------------------------------------------------
\* Characters
\* ------------------------------------------------------------------------
Upper == <<"A", "B", "C", "D", "E", "F", "G", "H", "I", "J", "K", "L", "M",
           "N", "O", "P", "Q", "R", "S", "T", "U", "V", "W", "X", "Y", "Z">>

Lower == <<"a", "b", "c", "d", "e", "f", "g", "h", "i", "j", "k", "l", "m",
           "n", "o", "p", "q", "r", "s", "t", "u", "v", "w", "x", "y", "z">>

Digits == <<"0", "1", "2", "3", "4", "5", "6", "7", "8", "9">>

UpperSet == {Upper[i] : i \in 1..26}

LowerSet == {Lower[i] : i \in 1..26}

DigitSet == {Digits[i] : i \in 1..10}

\* str.islower() on one ASCII character
IsLower(c) == c \in LowerSet

\* str.isalpha() on one ASCII character; also the class [A-Za-z]
IsAlpha(c) == c \in UpperSet \cup LowerSet

\* the class [0-9]
IsDigit(c) == c \in DigitSet

\* str.upper() on one character
ToUpper(c) == IF IsLower(c) THEN Upper[CHOOSE i \in 1..26 : Lower[i] = c] ELSE c

\* ord(c) - ord('A') + 1 for an uppercase letter
LetterValue(c) == CHOOSE i \in 1..26 : Upper[i] = c

\* the value of one decimal digit
DigitValue(c) == (CHOOSE i \in 1..10 : Digits[i] = c) - 1

\* The result of a call: kind is "ok" or the kind of the error raised; num is
\* the integer returned (or the offending integer), str the text returned (or
\* the text the error message names).
Res(kind, num, str) == [kind |-> kind, num |-> num, str |-> str]

Ok(num) == Res("ok", num, <<>>)

Raise(kind, str) == Res(kind, 0, str)

\* ------------------------------------------------------------------------
\* Label codec (src/utills.py)
\* ------------------------------------------------------------------------
RECURSIVE Loop26ToDecimal_ZeroBased(_, _, _)
\* a variant of the loop below that counts the letters from 0 (A = 0), as
\* ordinary base 26 does
Loop26ToDecimal_ZeroBased(s, i, result) ==
    IF i > Len(s) THEN Ok(result)
    ELSE LET c == ToUpper(s[i]) IN
         IF ~IsAlpha(c) THEN Raise("InvalidLabel", <<c>>)
         ELSE Loop26ToDecimal_ZeroBased(s, i + 1, result * 26 + LetterValue(c) - 1)

RECURSIVE Loop26ToDecimal(_, _, _)
\* the for loop of convert_26_base_to_decimal from character i on
Loop26ToDecimal(s, i, result) ==
    IF i > Len(s) THEN Ok(result)
    ELSE LET c == ToUpper(s[i]) IN
         IF ~IsAlpha(c) THEN Raise("InvalidLabel", <<c>>)
         ELSE Loop26ToDecimal(s, i + 1, result * 26 + LetterValue(c))

convert_26_base_to_decimal(s) == Loop26ToDecimal(s, 1, 0)

RECURSIVE LoopDecimalTo26_NoBorrow(_, _)
\* a variant of the loop below that divides n, not n - 1, by 26
LoopDecimalTo26_NoBorrow(n, result) ==
    IF n > 0
    THEN LoopDecimalTo26_NoBorrow(n \div 26, Append(result, Upper[((n - 1) % 26) + 1]))
    ELSE result

RECURSIVE LoopDecimalTo26(_, _)
\* the while loop of convert_decimal_to_26_base; result holds the letters
\* appended so far (least significant first)
LoopDecimalTo26(n, result) ==
    IF n > 0
    THEN LoopDecimalTo26((n - 1) \div 26, Append(result, Upper[((n - 1) % 26) + 1]))
    ELSE result

\* "".join(reversed(result))
Reversed(s) == [i \in 1..Len(s) |-> s[Len(s) + 1 - i]]

\* a variant of the conversion below without the test for a negative n
convert_decimal_to_26_base_Unchecked(n) == Res("ok", 0, Reversed(LoopDecimalTo26(n, <<>>)))

convert_decimal_to_26_base(n) ==
    IF n < 0 THEN Res("InvalidIndex", n, <<>>)
    ELSE Res("ok", 0, Reversed(LoopDecimalTo26(n, <<>>)))

\* ------------------------------------------------------------------------
\* Text helpers: str.strip(), int(), re.split()
\* ------------------------------------------------------------------------
\* the classes of characters the text helpers scan for: letters, digits,
\* blanks, the zeros and underscores a number may start with, and the
\* characters that are no operator
InClass(ch, class) ==
    IF class = "alpha" THEN IsAlpha(ch)
    ELSE IF class = "digit" THEN IsDigit(ch)
    ELSE IF class = "blank" THEN ch = " "
    ELSE IF class = "zero" THEN ch \in {"0", "_"}
    ELSE ch \notin {"+", "-"}

RECURSIVE LeadRun(_, _, _, _)
\* the number of characters of s, counted from place lo on and up to place
\* hi, that are of the class without a break (found by halving, so that a
\* long text nests the evaluation only a little)
LeadRun(s, lo, hi, class) ==
    IF lo > hi THEN 0
    ELSE IF lo = hi THEN (IF InClass(s[lo], class) THEN 1 ELSE 0)
    ELSE LET mid == (lo + hi) \div 2
             left == LeadRun(s, lo, mid, class)
         IN  IF left = mid - lo + 1
             THEN left + LeadRun(s, mid + 1, hi, class)
             ELSE left

\* the text without its leading blanks
LStrip(s) == SubSeq(s, LeadRun(s, 1, Len(s), "blank") + 1, Len(s))

\* a variant of the trimming below that trims nothing
Strip_None(s) == s

\* str.strip()
Strip(s) == Reversed(LStrip(Reversed(LStrip(s))))

RECURSIVE DecimalValue(_, _)
\* the value of a run of decimal digits, most significant first, the
\* underscores between the digits counting for nothing
DecimalValue(s, acc) ==
    IF s = <<>> THEN acc
    ELSE IF Head(s) = "_" THEN DecimalValue(Tail(s), acc)
    ELSE DecimalValue(Tail(s), acc * 10 + DigitValue(Head(s)))

\* the value of a run of decimal digits of any length: the zeros it starts
\* with count for nothing
NumberOf(s) == DecimalValue(SubSeq(s, LeadRun(s, 1, Len(s), "zero") + 1, Len(s)), 0)

\* sys.get_int_max_str_digits(): int() converts a text of at most that many
\* digits (the default of CPython)
MaxStrDigits == 4300

\* the number of digits of the text, the zeros it starts with included and
\* the underscores not
DigitCount(s) == Cardinality({i \in 1..Len(s) : IsDigit(s[i])})

\* the character at place i of s is a digit, or an underscore that stands
\* between two digits
IsDigitOrSeparator(s, i) ==
    \/ IsDigit(s[i])
    \/ /\ s[i] = "_"
       /\ 1 < i /\ i < Len(s)
       /\ IsDigit(s[i - 1]) /\ IsDigit(s[i + 1])

\* a variant of the test below that takes the empty text as a number
AllDigits_OrEmpty(s) == \A i \in 1..Len(s) : IsDigitOrSeparator(s, i)

\* the text is what int() reads after the sign: decimal digits, at least
\* one, with single underscores allowed between them
AllDigits(s) == s # <<>> /\ \A i \in 1..Len(s) : IsDigitOrSeparator(s, i)

\* int(s): surrounding blanks, an optional sign, one or more digits with
\* single underscores between them, at most MaxStrDigits digits in all; kind
\* "ValueError" otherwise (the callers that catch it turn it into their own
\* error)
PyInt(s) ==
    LET t == Strip(s)
        signed == t # <<>> /\ Head(t) \in {"+", "-"}
        body == IF signed THEN Tail(t) ELSE t
    IN  IF ~AllDigits(body) THEN Raise("ValueError", s)
        ELSE IF DigitCount(body) > MaxStrDigits THEN Raise("ValueError", s)
        ELSE IF signed /\ Head(t) = "-" THEN Ok(0 - NumberOf(body))
        ELSE Ok(NumberOf(body))

RECURSIVE DecimalDigits(_)
\* str(n) for n >= 0
DecimalDigits(n) ==
    IF n < 10 THEN <<Digits[n + 1]>>
    ELSE Append(DecimalDigits(n \div 10), Digits[(n % 10) + 1])

\* str(n)
PyStr(n) == IF n < 0 THEN <<"-">> \o DecimalDigits(0 - n) ELSE DecimalDigits(n)

\* the operator characters of operators_available
IsOperator(ch) == ch \in {"+", "-"}

RECURSIVE ReSplit(_, _)
\* re.split(r"(\+|-)", s) from character i on: the fragments between
\* operators, with the operators kept
ReSplit(s, i) ==
    LET n == LeadRun(s, i, Len(s), "plain")
    IN  IF i + n > Len(s) THEN <<SubSeq(s, i, Len(s))>>
        ELSE <<SubSeq(s, i, i + n - 1), <<s[i + n]>>>> \o ReSplit(s, i + n + 1)

\* a variant of the filter below that discards a minus sign as well
NonBlank_NoMinus(t) == Strip(t) # <<>> /\ Strip(t) # <<"-">>

\* the filter of the split: the fragment is kept if t.strip() is not empty
NonBlank(t) == Strip(t) # <<>>

\* tokens = [t.strip() for t in re.split(...) if t.strip()]
Tokenize(formula) ==
    LET parts == SelectSeq(ReSplit(formula, 1), NonBlank)
    IN  [i \in 1..Len(parts) |-> Strip(parts[i])]

\* ------------------------------------------------------------------------
\* References
\* ------------------------------------------------------------------------
\* the length of the longest run of letters (alpha) or digits (~alpha) of s
\* that starts at character i: what a greedy [A-Za-z]+ or [0-9]+ consumes
RunLen(s, i, alpha) == LeadRun(s, i, Len(s), IF alpha THEN "alpha" ELSE "digit")

\* re.match(r"^[A-Za-z]+[0-9]+$", token)
IsReference(token) ==
    LET a == RunLen(token, 1, TRUE)
        d == RunLen(token, a + 1, FALSE)
    IN  a >= 1 /\ d >= 1 /\ a + d = Len(token)

\* The result of parse_reference: kind "ok" with the zero-based row and column,
\* or the error raised, str naming the reference.
Coord(kind, row, col, str) == [kind |-> kind, row |-> row, col |-> col, str |-> str]

\* the range test of parse_reference
InRange(row_index, col_index, rows, cols) ==
    0 <= row_index /\ row_index < rows /\ 0 <= col_index /\ col_index < cols

\* parse_reference(ref) on a sheet of rows x cols cells; the ValueError of
\* int(row_part) is caught by nothing and leaves the call as it is
parse_reference(ref, rows, cols) ==
    LET a == RunLen(ref, 1, TRUE)
        d == RunLen(ref, a + 1, FALSE)
    IN  IF a < 1 \/ d < 1 THEN Coord("InvalidReference", 0, 0, ref)
        ELSE LET col_part == SubSeq(ref, 1, a)
                 row_part == SubSeq(ref, a + 1, a + d)
                 col_index == convert_26_base_to_decimal(col_part).num - 1
                 row_index == PyInt(row_part).num - 1
             IN  IF PyInt(row_part).kind # "ok"
                 THEN Coord("DigitLimit", 0, 0, <<>>)
                 ELSE IF ~InRange(row_index, col_index, rows, cols)
                 THEN Coord("OutOfRange", 0, 0, ref)
                 ELSE Coord("ok", row_index, col_index, <<>>)

\* _column_name(c): the label of the zero-based column c
_column_name(c) == Reversed(LoopDecimalTo26(c + 1, <<>>))

\* _cell_name(r, c): the label of the zero-based cell (r, c)
_cell_name(r, c) == _column_name(c) \o PyStr(r + 1)

\* ------------------------------------------------------------------------
\* Bounds of the model
\* ------------------------------------------------------------------------
\* a generated sheet has at most MaxRows rows, MaxCols columns and MaxCells
\* cells
MaxRows == 2

MaxCols == 2

MaxCells == 4

\* the formulas of a regular sheet hold at most MaxRefs references in all
MaxRefs == 3

\* an irregular sheet holds at most MaxIrregular irregular cells
MaxIrregular == 2

\* at most MaxCalls calls of evaluate() and evaluate_cell() are made on one
\* instance
MaxCalls == 2

\* at most MaxDirect of them are calls of evaluate_cell() by the caller
MaxDirect == 1

\* the caller calls evaluate() and evaluate_cell() at a depth of nested calls
\* of at most MaxCallerFrames: 1 is the top level of a script, 16 a test
\* method run by unittest.main() as in spreadsheet_tester.py
MaxCallerFrames == 16

\* the label codec is applied to the integers -MinIndex..MaxIndex and to the
\* labels of at most MaxLabelLen characters
MinIndex == 2

MaxIndex == 760

MaxLabelLen == 3

\* ------------------------------------------------------------------------
\* The sheets the model is run on
\* ------------------------------------------------------------------------
\* the text of a reference to the zero-based cell (r, c)
RefText(r, c) == _cell_name(r, c)

\* the references to the cells of a rows x cols sheet
RefTexts(rows, cols) == {RefText(r, c) : r \in 0..(rows - 1), c \in 0..(cols - 1)}

\* cells without a reference: blank and a literal
Plain == {<<>>, <<"5">>}

\* formulas with one reference
OneRef(rows, cols) ==
    {<<"=">> \o ref : ref \in RefTexts(rows, cols)} \cup {<<"=", "2", "-", "A", "1">>}

\* the references to the cells of a rows x cols sheet in row-major order
RefSeq(rows, cols) == [k \in 1..(rows * cols) |-> RefText((k - 1) \div cols, (k - 1) % cols)]

\* formulas with two references: every difference, and every sum up to the
\* order of its operands
TwoRefs(rows, cols) ==
    LET refs == RefSeq(rows, cols)
        n == rows * cols
    IN  {<<"=">> \o refs[i] \o <<"-">> \o refs[j] : i \in 1..n, j \in 1..n}
        \cup
        {<<"=">> \o refs[ij[1]] \o <<"+">> \o refs[ij[2]]
           : ij \in {p \in (1..n) \X (1..n) : p[1] <= p[2]}}

\* the cell texts that hold k references
WithRefs(k, rows, cols) ==
    IF k = 0 THEN Plain ELSE IF k = 1 THEN OneRef(rows, cols) ELSE TwoRefs(rows, cols)

Min(a, b) == IF a < b THEN a ELSE b

\* cell texts that are malformed, out of range or unusually written
Irregular(rows, cols) ==
    { <<"x">>, <<" ">>, <<" ", "-", "7", " ">>, <<"1", "_", "0">>,
      <<"=">>, <<"=", "A", "1", "+", "X">>, <<"=", "A", "1", "+">>,
      <<"=", "-", "5">>, <<"=", "+", "-", "5">>, <<"=", "A", "0">>,
      <<"=", "A", "1", "+", "A", "1", "-", "A", "1">>,
      <<"=", " ", "a", "1", " ", "-", " ", "2", " ">>,
      <<"=">> \o RefText(rows - 1, cols - 1) \o <<"+", "X">>,
      <<"=">> \o RefText(rows, 0),
      <<"=", "4", "+">> \o RefText(0, cols) }

\* the regular texts an irregular sheet is filled up with
Filler(rows, cols) == {<<"5">>, <<"=">> \o RefText(rows - 1, cols - 1)}

\* the rows x cols grid whose cells, in row-major order, are the texts of cells
AsGrid(cells, rows, cols) ==
    [r \in 1..rows |-> [c \in 1..cols |-> cells[(r - 1) * cols + c]]]

\* the shapes of the sheets: no row at all, or rows x cols
Shapes ==
    {<<0, 0>>} \cup
    {<<rows, cols>> \in (1..MaxRows) \X (0..MaxCols) : rows * cols <= MaxCells}

\* ------------------------------------------------------------------------
\* The Spreadsheet instance and a call of evaluate()
\* ------------------------------------------------------------------------
NOT_EVALUATED == 0

EVALUATED == 1

EVALUATING == 2

VARIABLES
    data,      \* self.data: the rows of raw cell texts
    values,    \* self.values: the computed value of each cell
    state,     \* self.state: the marker of each cell
    pc,        \* where the running call stands: "idle" (no call yet), "loop"
               \* (in the for loops of evaluate), "cell" (entering
               \* evaluate_cell(callee)), "content" (evaluate_cell reads the
               \* text of the cell on top of the stack), "formula"
               \* (_evaluate_formula of the cell on top of the stack),
               \* "returned", "raised"
    stack,     \* the active evaluate_cell calls, outermost first: the cell
               \* (r, c), the tokens of its formula, the operand values so far
    pos,       \* the for loops of evaluate: pos = r * cols + c
    callee,    \* the arguments of the evaluate_cell call being entered
    call,      \* the method the caller of the instance has called last:
               \* "evaluate", "evaluate_cell", or "none" before the first call
    depths,    \* the depths of nested calls at which the caller may have
               \* made that call: those under which the interpreter has
               \* allowed and refused the nesting as it did so far
    results,   \* the outcome of each call of the caller so far
    label,     \* codec: the label convert_26_base_to_decimal is applied to
    index,     \* codec: the integer convert_decimal_to_26_base is applied to
    decoded,   \* codec: the result of convert_26_base_to_decimal, if called
    encoded,   \* codec: the result of convert_decimal_to_26_base, if called
    trip       \* codec: the calls made so far, in order

sheetVars == <<data, values, state, pc, stack, pos, callee, call, depths, results>>

codecVars == <<label, index, decoded, encoded, trip>>

vars == <<data, values, state, pc, stack, pos, callee, call, depths, results,
          label, index, decoded, encoded, trip>>

\* self.rows
rows == Len(data)

\* self.cols
cols == IF rows > 0 THEN Len(data[1]) ELSE 0

\* the position in a list of n items that the Python index i denotes: a
\* negative index counts from the end
PyIndex(i, n) == IF i < 0 THEN n + i + 1 ELSE i + 1

\* the Python index i denotes an item of a list of n items (IndexError
\* otherwise)
InBounds(i, n) == 0 - n <= i /\ i < n

\* table[r][c]
At(table, r, c) ==
    LET row == table[PyIndex(r, Len(table))] IN row[PyIndex(c, Len(row))]

\* table[r][c] = v
Put(table, r, c, v) ==
    LET i == PyIndex(r, Len(table))
    IN  [table EXCEPT ![i][PyIndex(c, Len(table[i]))] = v]

\* the tables __init__ allocates
Filled(grid, v) == [r \in 1..Len(grid) |-> [c \in 1..Len(grid[r]) |-> v]]

\* the outcome of an evaluate() call: kind "ok" and the grid returned, or the
\* kind of the error raised and the text its message names
Outcome(kind, str, grid) ==
    [call |-> "evaluate", kind |-> kind, str |-> str, grid |-> grid, num |-> 0]

\* the outcome of an evaluate_cell(r, c) call of the caller: kind "ok" and the
\* integer returned, or the kind of the error raised and the text its message
\* names
CellOutcome(kind, str, num) ==
    [call |-> "evaluate_cell", kind |-> kind, str |-> str, grid |-> <<>>, num |-> num]

\* the outcome of the running call when it raises
Raised(kind, str) ==
    IF call = "evaluate" THEN Outcome(kind, str, <<>>) ELSE CellOutcome(kind, str, 0)

\* sys.getrecursionlimit(): the depth of nested calls the interpreter allows
\* (the default of CPython)
RecursionLimit == 1000

\* the depths at which the caller calls evaluate() or evaluate_cell()
CallerDepths == 1..MaxCallerFrames

\* the depth of the k-th nested evaluate_cell call when the caller is at
\* that depth: under evaluate() when the caller called it, and three calls
\* (evaluate_cell, _evaluate_formula, _evaluate_token) per reference followed
FrameOf(k, method, depth) ==
    depth + (IF method = "evaluate" THEN 1 ELSE 0) + 1 + 3 * (k - 1)

\* the depth above its evaluate_cell call that a formula needs to be split:
\* _evaluate_formula, and four for re.split (CPython 3.11)
SplitFrames == 5

\* the depth above its evaluate_cell call that a token needs to be matched:
\* _evaluate_formula, _evaluate_token, and four for re.match
TokenFrames == 6

\* the depth above its evaluate_cell call that a reference needs to be
\* parsed: _evaluate_formula, _evaluate_token, parse_reference, and four for
\* re.match
ReferenceFrames == 7

\* the interpreter allows need more levels of nesting above the k-th nested
\* evaluate_cell call (RecursionError otherwise)
FitsStack(k, method, depth, need) == FrameOf(k, method, depth) + need <= RecursionLimit

\* a variant of the check below that never finds a cell memoized
IsMemoized_Never(marker) == FALSE

\* the first check of evaluate_cell: the cell is memoized
IsMemoized(marker) == marker = EVALUATED

\* a variant of the check below that never finds a cell re-entered
IsReentered_Never(marker) == FALSE

\* a variant of the check below that tests for the wrong marker
IsReentered_Mixed(marker) == marker = EVALUATED

\* the second check of evaluate_cell: the cell is re-entered
IsReentered(marker) == marker = EVALUATING

\* a variant of the test below that takes three tokens or more
LegalTokenCount_AtLeast(n) == n = 1 \/ n >= 3

\* the token counts _evaluate_formula accepts
LegalTokenCount(n) == n = 1 \/ n = 3

\* a variant of the arithmetic below that subtracts the wrong way round
ApplyOperator_Swapped(op, left_val, right_val) ==
    IF op = <<"+">> THEN Ok(left_val + right_val)
    ELSE IF op = <<"-">> THEN Ok(right_val - left_val)
    ELSE Raise("InvalidOperator", op)

\* the arithmetic of _evaluate_formula on the operator token op
ApplyOperator(op, left_val, right_val) ==
    IF op = <<"+">> THEN Ok(left_val + right_val)
    ELSE IF op = <<"-">> THEN Ok(left_val - right_val)
    ELSE Raise("InvalidOperator", op)

\* a variant of the order below that evaluates the right operand first
OperandAt_RightFirst(tokens, n) == IF Len(tokens) = 1 THEN 1 ELSE IF n = 0 THEN 3 ELSE 1

\* the position in tokens of the operand _evaluate_formula evaluates after n
\* operands: the left one first
OperandAt(tokens, n) == IF Len(tokens) = 1 \/ n = 0 THEN 1 ELSE 3

\* a variant of the marker below that leaves a computed cell in evaluation
DoneMarker_Stuck == EVALUATING

\* a variant of the marker below that forgets the cell has been computed
DoneMarker_Reset == NOT_EVALUATED

\* the marker evaluate_cell leaves on a cell it has computed
DoneMarker == EVALUATED

\* the number of operands of a formula of that many tokens
OperandCount(tokens) == IF Len(tokens) = 1 THEN 1 ELSE 2

\* the frame of an evaluate_cell call
Frame(r, c) == [r |-> r, c |-> c, tokens |-> <<>>, vals |-> <<>>]

top == stack[Len(stack)]

\* the depths of the caller, among those of among, at which the running call
\* has room on the interpreter's stack for need more levels above the
\* evaluate_cell call on top of the stack
Room(among, need) == {depth \in among : FitsStack(Len(stack), call, depth, need)}

\* what the interpreter may do with need more levels of nesting, the caller
\* being at one of the depths of among: the depths at which it allows them,
\* and the depths at which it raises RecursionError
Nesting(among, need) == {Room(among, need), among \ Room(among, need)} \ {{}}

\* the running call has room for need more levels whatever the depth of the
\* caller
HasRoom(need) == Room(depths, need) = depths

\* a variant of the unwinding below that swallows the exception and goes on
\* with the for loops of evaluate
Fail_Retry(kind, str) ==
    /\ pc' = "loop"
    /\ stack' = <<>>
    /\ results' = results
    /\ UNCHANGED <<pos, callee>>

\* an exception leaves evaluate() or the evaluate_cell() the caller called:
\* the stack is unwound, nothing is reset
Fail(kind, str) ==
    /\ pc' = "raised"
    /\ stack' = <<>>
    /\ results' = Append(results, Raised(kind, str))
    /\ UNCHANGED <<pos, callee>>

\* evaluate_cell returns v to the callers in stk: to _evaluate_token of the
\* cell on top of stk, to the for loops of evaluate, or to the caller of the
\* instance
ReturnValue(stk, v) ==
    IF stk # <<>>
    THEN /\ pc' = "formula"
         /\ stack' = [stk EXCEPT ![Len(stk)].vals = Append(@, v)]
         /\ UNCHANGED <<pos, callee, results>>
    ELSE IF call = "evaluate"
    THEN /\ pc' = "loop"
         /\ pos' = pos + 1
         /\ stack' = stk
         /\ UNCHANGED <<callee, results>>
    ELSE /\ pc' = "returned"
         /\ stack' = stk
         /\ results' = Append(results, CellOutcome("ok", <<>>, v))
         /\ UNCHANGED <<pos, callee>>

\* the last lines of evaluate_cell: store the value, mark the cell, return
StoreAndReturn(v) ==
    /\ values' = Put(values, top.r, top.c, v)
    /\ state' = Put(state, top.r, top.c, DoneMarker)
    /\ ReturnValue(SubSeq(stack, 1, Len(stack) - 1), v)

RECURSIVE IsRegular(_, _, _, _, _)
\* grid is a nrows x ncols sheet whose first cells, in row-major order, are
\* the texts of cells and whose other cells hold at most budget references
IsRegular(grid, cells, budget, nrows, ncols) ==
    IF Len(cells) = nrows * ncols THEN grid = AsGrid(cells, nrows, ncols)
    ELSE \E k \in 0..Min(2, budget) :
            \E t \in WithRefs(k, nrows, ncols) :
               IsRegular(grid, Append(cells, t), budget - k, nrows, ncols)

RECURSIVE IsIrregular(_, _, _, _, _)
\* grid is a nrows x ncols sheet whose first cells, in row-major order, are
\* the texts of cells and of whose other cells at most budget are irregular
IsIrregular(grid, cells, budget, nrows, ncols) ==
    IF Len(cells) = nrows * ncols THEN grid = AsGrid(cells, nrows, ncols)
    ELSE \/ \E t \in Filler(nrows, ncols) :
              IsIrregular(grid, Append(cells, t), budget, nrows, ncols)
         \/ /\ budget > 0
            /\ \E t \in Irregular(nrows, ncols) :
                  IsIrregular(grid, Append(cells, t), budget - 1, nrows, ncols)

InitSheet ==
    /\ \E sh \in Shapes :
         \/ IsRegular(data, <<>>, MaxRefs, sh[1], sh[2])
         \/ IsIrregular(data, <<>>, MaxIrregular, sh[1], sh[2])
    /\ values = Filled(data, 0)
    /\ state = Filled(data, NOT_EVALUATED)
    /\ pc = "idle"
    /\ stack = <<>>
    /\ pos = 0
    /\ callee = <<0, 0>>
    /\ call = "none"
    /\ depths = CallerDepths
    /\ results = <<>>

\* evaluate() is called (again, once the previous call is over)
evaluate ==
    /\ pc \in {"idle", "returned", "raised"}
    /\ Len(results) < MaxCalls
    /\ pc' = "loop"
    /\ pos' = 0
    /\ call' = "evaluate"
    /\ depths' = CallerDepths
    /\ UNCHANGED <<data, values, state, stack, callee, results>>
    /\ UNCHANGED codecVars

\* the arguments the caller gives evaluate_cell: the cells of the first
\* MaxRows rows and MaxCols columns, the last cell by negative indices, a row
\* and a column beyond the last one
Arguments ==
    {<<r, c>> : r \in 0..(Min(rows, MaxRows) - 1), c \in 0..(Min(cols, MaxCols) - 1)}
    \cup {<<0 - 1, 0 - 1>>, <<rows, 0>>, <<0, cols>>}

\* the number of evaluate_cell() calls by the caller among the calls made
DirectCalls ==
    Cardinality({i \in 1..Len(results) : results[i].call = "evaluate_cell"})

\* evaluate_cell(r, c) is called by the caller of the instance (once the
\* previous call is over)
call_evaluate_cell ==
    /\ pc \in {"idle", "returned", "raised"}
    /\ Len(results) < MaxCalls
    /\ DirectCalls < MaxDirect
    /\ \E arguments \in Arguments : callee' = arguments
    /\ pc' = "cell"
    /\ call' = "evaluate_cell"
    /\ depths' = CallerDepths
    /\ UNCHANGED <<data, values, state, stack, pos, results>>
    /\ UNCHANGED codecVars

\* one turn of the for loops of evaluate(), or its return statement
evaluate_loop ==
    /\ pc = "loop"
    /\ IF pos >= rows * cols
       THEN /\ pc' = "returned"
            /\ results' = Append(results, Outcome("ok", <<>>, values))
            /\ UNCHANGED <<pos, callee>>
       ELSE LET r == pos \div cols
                c == pos % cols
            IN  IF At(state, r, c) # EVALUATED
                THEN /\ pc' = "cell"
                     /\ callee' = <<r, c>>
                     /\ UNCHANGED <<pos, results>>
                ELSE /\ pos' = pos + 1
                     /\ UNCHANGED <<pc, callee, results>>
    /\ UNCHANGED <<data, values, state, stack, call, depths>>
    /\ UNCHANGED codecVars

\* evaluate_cell(r, c) up to the marking of the cell; self.state[r][c] raises
\* IndexError for an index outside the table
evaluate_cell ==
    /\ pc = "cell"
    /\ LET r == callee[1]
           c == callee[2]
       IN  IF ~(InBounds(r, rows) /\ InBounds(c, cols))
           THEN /\ Fail("IndexError", <<>>)
                /\ UNCHANGED state
           ELSE IF IsMemoized(At(state, r, c))
           THEN /\ ReturnValue(stack, At(values, r, c))
                /\ UNCHANGED state
           ELSE IF IsReentered(At(state, r, c))
           THEN /\ Fail("CircularReference", _cell_name(r, c))
                /\ UNCHANGED state
           ELSE /\ state' = Put(state, r, c, EVALUATING)
                /\ stack' = Append(stack, Frame(r, c))
                /\ pc' = "content"
                /\ UNCHANGED <<pos, callee, results>>
    /\ UNCHANGED <<data, values, call, depths>>
    /\ UNCHANGED codecVars

\* evaluate_cell from the reading of the cell text on: a blank or a literal
\* is stored at once; a formula is split into its tokens, if the interpreter
\* has room for the calls that split it, which depends on the depth of the
\* caller (a local variable of the code is bound by \E over the one value it
\* is given)
evaluate_cell_content ==
    /\ pc = "content"
    /\ \E cell_content \in {Strip(At(data, top.r, top.c))} :
           IF cell_content = <<>>
           THEN /\ StoreAndReturn(0)
                /\ UNCHANGED depths
           ELSE IF Head(cell_content) = "="
           THEN \E callers \in Nesting(depths, SplitFrames) :
                /\ depths' = callers
                /\ IF callers # Room(depths, SplitFrames)
                   THEN /\ Fail("RecursionError", <<>>)
                        /\ UNCHANGED <<values, state>>
                   ELSE \E formula \in {Tail(cell_content)} : \E tokens \in {Tokenize(formula)} :
                       /\ IF LegalTokenCount(Len(tokens))
                          THEN /\ stack' = [stack EXCEPT ![Len(stack)].tokens = tokens]
                               /\ pc' = "formula"
                               /\ UNCHANGED <<pos, callee, results>>
                          ELSE Fail("InvalidFormula", formula)
                       /\ UNCHANGED <<values, state>>
           ELSE \E value \in {PyInt(cell_content)} :
                    /\ IF value.kind = "ok"
                       THEN StoreAndReturn(value.num)
                       ELSE /\ Fail("InvalidCellValue", cell_content)
                            /\ UNCHANGED <<values, state>>
                    /\ UNCHANGED depths
    /\ UNCHANGED <<data, call>>
    /\ UNCHANGED codecVars

\* _evaluate_token on the next operand of the formula on top of the stack,
\* if the interpreter has room for the calls that match the token and, for a
\* reference, for the calls that parse it, which depends on the depth of the
\* caller
_evaluate_token ==
    /\ pc = "formula"
    /\ Len(top.vals) < OperandCount(top.tokens)
    /\ \E token \in {top.tokens[OperandAt(top.tokens, Len(top.vals))]} :
       \E matching \in Nesting(depths, TokenFrames) :
           IF matching # Room(depths, TokenFrames)
           THEN /\ Fail("RecursionError", <<>>)
                /\ depths' = matching
           ELSE IF IsReference(token)
           THEN \E parsing \in Nesting(matching, ReferenceFrames) :
                /\ depths' = parsing
                /\ IF parsing # Room(matching, ReferenceFrames)
                   THEN Fail("RecursionError", <<>>)
                   ELSE \E ref \in {parse_reference(token, rows, cols)} :
                       IF ref.kind = "ok"
                       THEN /\ pc' = "cell"
                            /\ callee' = <<ref.row, ref.col>>
                            /\ UNCHANGED <<stack, pos, results>>
                       ELSE Fail(ref.kind, ref.str)
           ELSE \E value \in {PyInt(token)} :
                    /\ IF value.kind = "ok"
                       THEN /\ stack' = [stack EXCEPT ![Len(stack)].vals = Append(@, value.num)]
                            /\ UNCHANGED <<pc, pos, callee, results>>
                       ELSE Fail("InvalidToken", token)
                    /\ depths' = matching
    /\ UNCHANGED <<data, values, state, call>>
    /\ UNCHANGED codecVars

\* the end of _evaluate_formula and of evaluate_cell, all operands evaluated
_evaluate_formula ==
    /\ pc = "formula"
    /\ Len(top.vals) = OperandCount(top.tokens)
    /\ \E value \in {IF Len(top.tokens) = 1 THEN Ok(top.vals[1])
                     ELSE ApplyOperator(top.tokens[2], top.vals[1], top.vals[2])} :
           IF value.kind = "ok"
           THEN StoreAndReturn(value.num)
           ELSE /\ Fail(value.kind, value.str)
                /\ UNCHANGED <<values, state>>
    /\ UNCHANGED <<data, call, depths>>
    /\ UNCHANGED codecVars

\* no codec call in a run of the sheet
IdleCodec ==
    /\ label = <<>>
    /\ index = 0
    /\ decoded = <<>>
    /\ encoded = <<>>
    /\ trip = <<>>

Init == InitSheet /\ IdleCodec

Next ==
    \/ evaluate
    \/ call_evaluate_cell
    \/ evaluate_loop
    \/ evaluate_cell
    \/ evaluate_cell_content
    \/ _evaluate_token
    \/ _evaluate_formula

Spec == Init /\ [][Next]_vars

\* a step of the call that is running
Run ==
    \/ evaluate_loop
    \/ evaluate_cell
    \/ evaluate_cell_content
    \/ _evaluate_token
    \/ _evaluate_formula

\* a call of evaluate() or of evaluate_cell() is running
Running == pc \in {"loop", "cell", "content", "formula"}

\* The methods run synchronously on one thread: a call that has started goes
\* on as long as it has a step to take.  This is weak fairness of Run, with
\* the enabledness of Run written as the state predicate Running: a running
\* call always has a step to take, and exactly one.
RunFairness == []<>(~Running) \/ []<><<Run>>_vars

\* the instance in the hands of a caller that calls evaluate() only
NextEvaluate ==
    \/ evaluate
    \/ Run

\* weak fairness of the running call, stated for its steps as a whole and,
\* for the two steps that read no cell text, one by one
SpecRun ==
    /\ Init
    /\ [][NextEvaluate]_vars
    /\ RunFairness
    /\ WF_vars(evaluate_loop)
    /\ WF_vars(evaluate_cell)

\* ------------------------------------------------------------------------
\* Calls of the label codec
\* ------------------------------------------------------------------------
\* the characters the labels are made of: letters of both cases, a digit and
\* a character that is neither
LabelChars == {"A", "B", "M", "Z", "a", "z", "1", "_"}

\* the labels of at most MaxLabelLen characters
Labels == UNION {[1..n -> LabelChars] : n \in 0..MaxLabelLen}

\* no Spreadsheet is evaluated in a run of the codec
IdleSheet ==
    /\ data = <<>>
    /\ values = <<>>
    /\ state = <<>>
    /\ pc = "idle"
    /\ stack = <<>>
    /\ pos = 0
    /\ callee = <<0, 0>>
    /\ call = "none"
    /\ depths = CallerDepths
    /\ results = <<>>

InitCodec ==
    /\ IdleSheet
    /\ \/ label \in Labels /\ index = 0
       \/ label = <<>> /\ index \in (0 - MinIndex)..MaxIndex
    /\ decoded = <<>>
    /\ encoded = <<>>
    /\ trip = <<>>

\* convert_26_base_to_decimal(label)
Decode ==
    /\ trip = <<>>
    /\ decoded' = <<convert_26_base_to_decimal(label)>>
    /\ trip' = <<"decode">>
    /\ UNCHANGED <<label, index, encoded>>
    /\ UNCHANGED sheetVars

\* convert_decimal_to_26_base(index)
Encode ==
    /\ trip = <<>>
    /\ encoded' = <<convert_decimal_to_26_base(index)>>
    /\ trip' = <<"encode">>
    /\ UNCHANGED <<label, index, decoded>>
    /\ UNCHANGED sheetVars

\* convert_decimal_to_26_base(convert_26_base_to_decimal(label))
EncodeDecoded ==
    /\ trip = <<"decode">>
    /\ decoded[1].kind = "ok"
    /\ encoded' = <<convert_decimal_to_26_base(decoded[1].num)>>
    /\ trip' = <<"decode", "encode">>
    /\ UNCHANGED <<label, index, decoded>>
    /\ UNCHANGED sheetVars

\* convert_26_base_to_decimal(convert_decimal_to_26_base(index))
DecodeEncoded ==
    /\ trip = <<"encode">>
    /\ encoded[1].kind = "ok"
    /\ decoded' = <<convert_26_base_to_decimal(encoded[1].str)>>
    /\ trip' = <<"encode", "decode">>
    /\ UNCHANGED <<label, index, encoded>>
    /\ UNCHANGED sheetVars

NextCodec ==
    \/ Decode
    \/ Encode
    \/ EncodeDecoded
    \/ DecodeEncoded

SpecCodec == InitCodec /\ [][NextCodec]_vars

\* ------------------------------------------------------------------------
\* Sheets of one long column
\* ------------------------------------------------------------------------
\* a long column has DeepRows rows, or one row less
DeepRows == 333

\* what the last cell of a long column holds: a literal, a formula without a
\* reference, a reference to the first cell
DeepTails == {<<"5">>, <<"=", "5">>, <<"=", "A", "1">>}

\* the sheet of n rows and one column whose cells refer each to the cell
\* below it, the last cell holding tail
ChainSheet(n, tail) ==
    [r \in 1..n |-> << IF r < n THEN <<"=">> \o RefText(r, 0) ELSE tail >>]

InitDeep ==
    /\ \E n \in {DeepRows - 1, DeepRows} : \E tail \in DeepTails :
           data = ChainSheet(n, tail)
    /\ values = Filled(data, 0)
    /\ state = Filled(data, NOT_EVALUATED)
    /\ pc = "idle"
    /\ stack = <<>>
    /\ pos = 0
    /\ callee = <<0, 0>>
    /\ call = "none"
    /\ depths = CallerDepths
    /\ results = <<>>
    /\ IdleCodec

SpecDeep == InitDeep /\ [][Next]_vars

\* ------------------------------------------------------------------------
\* Sheets with a number of very many digits
\* ------------------------------------------------------------------------
\* the text of n zeros
Zeros(n) == [i \in 1..n |-> "0"]

\* cell texts with a number of MaxStrDigits digits, which int() converts,
\* or of one digit more, which it refuses: literals, a literal in a formula,
\* and the row of references to A1, to B1 and to row 9
LongTexts ==
    { Zeros(MaxStrDigits),
      Zeros(MaxStrDigits + 1),
      <<"=">> \o Zeros(MaxStrDigits + 1),
      <<"=", "A">> \o Zeros(MaxStrDigits - 1) \o <<"1">>,
      <<"=", "A">> \o Zeros(MaxStrDigits) \o <<"1">>,
      <<"=", "B">> \o Zeros(MaxStrDigits) \o <<"1", "+", "1">>,
      <<"=", "B">> \o Zeros(MaxStrDigits - 1) \o <<"9">>,
      <<"=", "B">> \o Zeros(MaxStrDigits) \o <<"9">> }

\* the sheets of one row and two cells, one of them a long text and the
\* other a regular text
InitLong ==
    /\ \E long \in LongTexts : \E other \in Filler(1, 2) :
           data \in { << <<long, other>> >>, << <<other, long>> >> }
    /\ values = Filled(data, 0)
    /\ state = Filled(data, NOT_EVALUATED)
    /\ pc = "idle"
    /\ stack = <<>>
    /\ pos = 0
    /\ callee = <<0, 0>>
    /\ call = "none"
    /\ depths = CallerDepths
    /\ results = <<>>
    /\ IdleCodec

SpecLong == InitLong /\ [][Next]_vars

\* ------------------------------------------------------------------------
\* Sheets made to run one formula text
\* ------------------------------------------------------------------------
\* a formula text has at most MaxFormulaLen characters
MaxFormulaLen == 5

\* the characters of the formula texts: the two operators, a digit, a
\* letter, the blank and the underscore
FormulaChars == {"+", "-", "1", "B", " ", "_"}

\* the formula texts of at most MaxFormulaLen characters
FormulaTexts == UNION {[1..n -> FormulaChars] : n \in 0..MaxFormulaLen}

\* the sheet [["=" + text, "1"]] for a formula text: B1 is a reference inside
\* the sheet, to a literal
InitFormula ==
    /\ \E text \in FormulaTexts : data = << << <<"=">> \o text, <<"1">> >> >>
    /\ values = Filled(data, 0)
    /\ state = Filled(data, NOT_EVALUATED)
    /\ pc = "idle"
    /\ stack = <<>>
    /\ pos = 0
    /\ callee = <<0, 0>>
    /\ call = "none"
    /\ depths = CallerDepths
    /\ results = <<>>
    /\ IdleCodec

SpecFormula == InitFormula /\ [][Next]_vars

\* ------------------------------------------------------------------------
\* What a sheet means, read off its raw texts alone
\* ------------------------------------------------------------------------
\* the zero-based coordinates of the sheet
Cells == {<<r, c>> : r \in 0..(rows - 1), c \in 0..(cols - 1)}

\* the cell at place k of the row-major order, k = 0, 1, ...
CellAt(k) == <<k \div cols, k % cols>>

\* the cell the arguments (r, c) of evaluate_cell denote, a negative index
\* counting from the end
CellOfArguments(r, c) == <<PyIndex(r, rows) - 1, PyIndex(c, cols) - 1>>

\* the cell of the evaluate_cell call on top of the stack
TopCell == CellOfArguments(top.r, top.c)

\* the trimmed text of a cell
TextOf(cell) == Strip(data[cell[1] + 1][cell[2] + 1])

IsBlankCell(cell) == TextOf(cell) = <<>>

IsFormulaCell(cell) == TextOf(cell) # <<>> /\ Head(TextOf(cell)) = "="

\* the text of a formula cell after its "="
FormulaOf(cell) == Tail(TextOf(cell))

\* the number of tokens of a formula text: its operator characters, and its
\* runs of other characters that hold a character other than the blank
TokenCount(text) ==
    LET isOp(i) == text[i] = "+" \/ text[i] = "-"
        startsRun(i) ==
            /\ ~isOp(i) /\ text[i] # " "
            /\ \A j \in 1..(i - 1) :
                  (~isOp(j) /\ text[j] # " ") => \E m \in (j + 1)..(i - 1) : isOp(m)
    IN  Cardinality({i \in 1..Len(text) : isOp(i)})
        + Cardinality({i \in 1..Len(text) : startsRun(i)})

\* the operand tokens of a formula of one token or of three
OperandsOf(cell) ==
    LET tokens == Tokenize(FormulaOf(cell))
    IN  IF Len(tokens) = 1 THEN <<tokens[1]>>
        ELSE IF Len(tokens) = 3 THEN <<tokens[1], tokens[3]>>
        ELSE <<>>

\* the one-based row number and column number a reference token names
RowNumberOf(token) ==
    NumberOf(SubSeq(token, RunLen(token, 1, TRUE) + 1, Len(token)))

ColumnNumberOf(token) ==
    convert_26_base_to_decimal(SubSeq(token, 1, RunLen(token, 1, TRUE))).num

\* the reference token names a cell of the sheet
InsideGrid(token) ==
    /\ 1 <= RowNumberOf(token) /\ RowNumberOf(token) <= rows
    /\ 1 <= ColumnNumberOf(token) /\ ColumnNumberOf(token) <= cols

\* the cell a reference token inside the grid names
TargetOf(token) == <<RowNumberOf(token) - 1, ColumnNumberOf(token) - 1>>

\* a Formula Token: a reference inside the grid or an integer
IsGoodToken(token) ==
    IF IsReference(token) THEN InsideGrid(token) ELSE PyInt(token).kind = "ok"

\* blank, an integer, or a formula of one token or of three (token, operator,
\* token) whose references are all inside the grid
IsWellFormedCell(cell) ==
    LET text == TextOf(cell)
        operands == OperandsOf(cell)
    IN  IF text = <<>> THEN TRUE
        ELSE IF Head(text) = "="
        THEN /\ TokenCount(Tail(text)) \in {1, 3}
             /\ \A i \in 1..Len(operands) : IsGoodToken(operands[i])
        ELSE PyInt(text).kind = "ok"

IsWellFormedSheet == \A cell \in Cells : IsWellFormedCell(cell)

\* the cells a cell refers to: the references inside the grid among the
\* tokens of its formula
RefsOf(cell) ==
    IF ~IsFormulaCell(cell) THEN {}
    ELSE LET tokens == Tokenize(FormulaOf(cell))
         IN  {TargetOf(tokens[i]) :
                i \in {j \in 1..Len(tokens) :
                         IsReference(tokens[j]) /\ InsideGrid(tokens[j])}}

RECURSIVE Unending(_, _)
\* the cells of S left when the cells that refer to no cell left are taken
\* away again and again, refs giving the cells each cell refers to
Unending(S, refs) ==
    LET ends == {cell \in S : refs[cell] \cap S = {}}
    IN  IF ends = {} THEN S ELSE Unending(S \ ends, refs)

\* the cells of S from which a cycle of references inside S is reached
OnCycles(S) == Unending(S, [cell \in S |-> RefsOf(cell)])

\* some cell refers to itself directly or through a chain of references
HasCycle == OnCycles(Cells) # {}

\* the value of an operand token, the cells having the values of table
OperandValue(token, table) ==
    IF IsReference(token)
    THEN table[RowNumberOf(token)][ColumnNumberOf(token)]
    ELSE PyInt(token).num

\* the value of a well-formed cell, the cells it refers to having the
\* values of table
MeaningOf(cell, table) ==
    LET text == TextOf(cell)
        tokens == Tokenize(Tail(text))
    IN  IF text = <<>> THEN 0
        ELSE IF Head(text) # "=" THEN PyInt(text).num
        ELSE IF Len(tokens) = 1 THEN OperandValue(tokens[1], table)
        ELSE IF tokens[2] = <<"+">>
        THEN OperandValue(tokens[1], table) + OperandValue(tokens[3], table)
        ELSE OperandValue(tokens[1], table) - OperandValue(tokens[3], table)

RECURSIVE Probe(_, _)
RECURSIVE ProbeToken(_, _)
\* the outcome of evaluating a cell of a fresh sheet depth-first, the left
\* operand before the right one, path being the cells under evaluation:
\* its value, or the first error met
Probe(cell, path) ==
    IF cell \in path THEN Raise("CircularReference", _cell_name(cell[1], cell[2]))
    ELSE IF IsBlankCell(cell) THEN Ok(0)
    ELSE IF ~IsFormulaCell(cell)
    THEN IF PyInt(TextOf(cell)).kind = "ok" THEN PyInt(TextOf(cell))
         ELSE Raise("InvalidCellValue", TextOf(cell))
    ELSE LET tokens == Tokenize(FormulaOf(cell))
             left == ProbeToken(tokens[1], path \cup {cell})
             right == ProbeToken(tokens[3], path \cup {cell})
         IN  IF Len(tokens) \notin {1, 3} THEN Raise("InvalidFormula", FormulaOf(cell))
             ELSE IF left.kind # "ok" \/ Len(tokens) = 1 THEN left
             ELSE IF right.kind # "ok" THEN right
             ELSE IF tokens[2] = <<"+">> THEN Ok(left.num + right.num)
             ELSE Ok(left.num - right.num)

ProbeToken(token, path) ==
    IF IsReference(token)
    THEN IF Len(token) - RunLen(token, 1, TRUE) > MaxStrDigits
         THEN Raise("DigitLimit", <<>>)
         ELSE IF InsideGrid(token) THEN Probe(TargetOf(token), path)
         ELSE Raise("OutOfRange", token)
    ELSE IF PyInt(token).kind = "ok" THEN PyInt(token)
    ELSE Raise("InvalidToken", token)

RECURSIVE FirstProblemFrom(_)
\* the first problem of a fresh sheet, cells swept in row-major order from
\* place k on: the place of the cell the sweep stops at and the error, or
\* the number of cells and "ok" when there is no problem
FirstProblemFrom(k) ==
    IF k >= rows * cols THEN [pos |-> k, res |-> Ok(0)]
    ELSE LET res == Probe(CellAt(k), {})
         IN  IF res.kind # "ok" THEN [pos |-> k, res |-> res]
             ELSE FirstProblemFrom(k + 1)

RECURSIVE FirstNotDoneFrom(_)
\* the first place from k on, in row-major order, of a cell not marked
\* EVALUATED (the number of cells when there is none)
FirstNotDoneFrom(k) ==
    IF k >= rows * cols THEN k
    ELSE IF At(state, CellAt(k)[1], CellAt(k)[2]) # EVALUATED THEN k
    ELSE FirstNotDoneFrom(k + 1)

\* the outcome of the call that ended last
LastResult == results[Len(results)]

\* every call made on the instance so far, the running one included, is a
\* call of evaluate()
OnlyEvaluate ==
    /\ call # "evaluate_cell"
    /\ \A i \in 1..Len(results) : results[i].call = "evaluate"

\* ------------------------------------------------------------------------
\* Properties
\* ------------------------------------------------------------------------
\* C1: on a sheet all of whose cells are well-formed and in which some cell
\* refers to itself, directly or through a chain of references of any length,
\* evaluate() never returns a grid: every call of evaluate() that ends, ends
\* in CircularReferenceError, and the recursion never gets deeper than the
\* number of cells.
C1_CycleRaisesCircularReference ==
    /\ Len(stack) <= rows * cols \/ ~(IsWellFormedSheet /\ HasCycle)
    /\ (pc \in {"returned", "raised"} /\ call = "evaluate") =>
          \/ pc = "raised" /\ LastResult.kind = "CircularReference"
          \/ ~(IsWellFormedSheet /\ HasCycle)

\* on a sheet of one column whose cells refer each to the next and the last
\* to the first, a cycle as long as the column, the first evaluate() has
\* ended in RecursionError
C1_Witness ==
    /\ results = << Outcome("RecursionError", <<>>, <<>>) >>
    /\ rows = DeepRows /\ cols = 1
    /\ IsWellFormedSheet /\ HasCycle

\* C2: on a sheet whose reference graph has no cycle no evaluate() call
\* raises CircularReferenceError.
C2_AcyclicNeverCircular ==
    (\E i \in 1..Len(results) : results[i].kind = "CircularReference") => HasCycle

\* C3: whenever evaluate() returns a grid, every cell of the sheet is
\* well-formed and the value at every coordinate is what the raw text of the
\* cell means: 0 for a blank, the integer for a literal, the operand for a
\* formula of one token, left + right or left - right for a formula of three,
\* an operand being the returned value of the cell referred to or the
\* integer.
C3_ValuesMatchMeaning ==
    (pc = "returned" /\ call = "evaluate") =>
        /\ LastResult.kind = "ok"
        /\ IsWellFormedSheet
        /\ \A cell \in Cells :
              LastResult.grid[cell[1] + 1][cell[2] + 1]
                  = MeaningOf(cell, LastResult.grid)

\* the sheet [["5", "=2-A1"], ["=A1-B1", ""]] has returned [[5, -3], [8, 0]]
C3_Witness ==
    /\ data = << <<<<"5">>, <<"=", "2", "-", "A", "1">>>>,
                 <<<<"=", "A", "1", "-", "B", "1">>, <<>>>> >>
    /\ pc = "returned"
    /\ LastResult.grid = << <<5, 0 - 3>>, <<8, 0>> >>

\* the grids the calls of evaluate() made so far have returned
ReturnedGrids ==
    {results[i].grid : i \in {j \in 1..Len(results) :
                                 results[j].call = "evaluate" /\ results[j].kind = "ok"}}

\* C4: once evaluate() has returned a grid, no later step changes a marker or
\* a stored value, and every later call of evaluate() returns the same grid.
C4_SecondCallRecomputesNothing ==
    [][ReturnedGrids # {} =>
          /\ values' = values
          /\ state' = state
          /\ (Len(results') > Len(results) /\ call = "evaluate") =>
                /\ results'[Len(results')].kind = "ok"
                /\ results'[Len(results')].grid \in ReturnedGrids
      ]_vars

\* a sheet with a formula has been evaluated twice, both calls returning
C4_Witness ==
    /\ Len(results) = 2
    /\ results[1].kind = "ok" /\ results[2].kind = "ok"
    /\ data = << <<<<"=", "B", "1", "-", "A", "2">>, <<"5">>>>,
                 <<<<"=", "B", "1">>, <<>>>> >>

\* C5: an evaluate() call that fails returns no grid and fails with the first
\* problem met when the cells are swept in row-major order and the operands
\* of each formula are evaluated depth-first, the left one before the right
\* one; the sweep stops at the cell it was at.  On a fresh sheet that is the
\* first problem of the raw texts, unless the interpreter runs out of stack
\* on the way to it; on a sheet an earlier evaluate() has failed on, it is
\* the re-entry of the first cell not marked EVALUATED.
C5_FirstProblemIsRaised ==
    (pc = "raised" /\ OnlyEvaluate) =>
        /\ stack = <<>>
        /\ LastResult.grid = <<>>
        /\ IF Len(results) = 1
           THEN \/ LastResult.kind = "RecursionError"
                \/ FirstProblemFrom(0)
                      = [pos |-> pos, res |-> Raise(LastResult.kind, LastResult.str)]
           ELSE /\ LastResult.kind = "CircularReference"
                /\ LastResult.str = _cell_name(CellAt(pos)[1], CellAt(pos)[2])
                /\ FirstNotDoneFrom(0) = pos

\* the sheet [["=B2+X", "x"], ["5", "=B2"]] has three problems; the first one
\* met is the cycle at B2, reached through the left operand of A1
C5_Witness ==
    /\ data = << <<<<"=", "B", "2", "+", "X">>, <<"x">>>>,
                 <<<<"5">>, <<"=", "B", "2">>>> >>
    /\ pc = "raised"
    /\ Len(results) = 1
    /\ LastResult = Outcome("CircularReference", <<"B", "2">>, <<>>)

\* C6: the evaluation of the one-cell sheet [["=A1+X"]] fails with
\* InvalidTokenError for the token X.
C6_InvalidTokenExample ==
    (/\ data = << <<<<"=", "A", "1", "+", "X">>>> >>
     /\ Len(results) >= 1
     /\ results[1].call = "evaluate") =>
        results[1] = Outcome("InvalidToken", <<"X">>, <<>>)

\* the operand _evaluate_token is about to evaluate
NextOperand == top.tokens[OperandAt(top.tokens, Len(top.vals))]

\* _evaluate_token is about to evaluate an operand
AtOperand == pc = "formula" /\ Len(top.vals) < OperandCount(top.tokens)

\* the outcome a step adds to the outcomes of the calls is an error of that
\* kind naming that text
RaisesError(kind, str) ==
    /\ Len(results') = Len(results) + 1
    /\ SubSeq(results', 1, Len(results)) = results
    /\ results'[Len(results')].kind = kind
    /\ results'[Len(results')].str = str

\* C7: the evaluation of a reference token that names row 0, a row beyond
\* the last one or a column beyond the last one fails, when parse_reference
\* is reached (the interpreter has room for the call), with OutOfRangeError
\* naming the reference, and reads or marks no cell.
C7_OutOfRangeReference ==
    [][(/\ AtOperand
        /\ IsReference(NextOperand) /\ ~InsideGrid(NextOperand)
        /\ HasRoom(ReferenceFrames)) =>
          /\ pc' = "raised"
          /\ RaisesError("OutOfRange", NextOperand)
          /\ state' = state
          /\ values' = values
      ]_vars

\* on the sheet of one row whose cell A1 refers to row 9 of column B in
\* MaxStrDigits + 1 digits, evaluate() has ended in the error of int()
C7_Witness ==
    /\ data[1][1] = <<"=", "B">> \o Zeros(MaxStrDigits) \o <<"9">>
    /\ rows = 1
    /\ pc = "raised"
    /\ results = << Outcome("DigitLimit", <<>>, <<>>) >>

\* evaluate_cell is about to read the text of a formula cell, and the
\* interpreter has room for the calls that split the formula
AtFormula == pc = "content" /\ IsFormulaCell(TopCell) /\ HasRoom(SplitFrames)

\* C8: a formula that _evaluate_formula gets to split is evaluated only when
\* it has one token or three; with any other number of tokens it fails with
\* InvalidFormulaError naming its text, no cell being evaluated or marked;
\* and InvalidFormulaError is raised for no other reason.
C8_TokenCountDecidesLegality ==
    [][/\ AtFormula =>
            IF TokenCount(FormulaOf(TopCell)) \in {1, 3}
            THEN pc' = "formula"
            ELSE /\ pc' = "raised"
                 /\ RaisesError("InvalidFormula", FormulaOf(TopCell))
                 /\ state' = state
                 /\ values' = values
       /\ (Len(results') > Len(results)
             /\ results'[Len(results')].kind = "InvalidFormula") => AtFormula
      ]_vars

\* the formula "A1+A1-A1" of five tokens has been refused
C8_Witness ==
    /\ pc = "raised"
    /\ LastResult =
         Outcome("InvalidFormula", <<"A", "1", "+", "A", "1", "-", "A", "1">>, <<>>)

\* the label is made of uppercase letters only
IsUpperLabel(s) == s # <<>> /\ \A i \in 1..Len(s) : s[i] \in UpperSet

\* C9: the label codec round-trips: decoding the label of n gives n for every
\* n >= 1, and encoding the number of s gives s for every non-empty s of
\* uppercase letters.
C9_RoundTrip ==
    /\ (trip = <<"encode", "decode">> /\ index >= 1) => decoded[1] = Ok(index)
    /\ (trip = <<"decode", "encode">> /\ IsUpperLabel(label)) =>
           encoded[1] = Res("ok", 0, label)

\* 703 has been encoded as AAA and decoded again
C9_Witness ==
    /\ trip = <<"encode", "decode">>
    /\ index = 703
    /\ encoded[1].str = <<"A", "A", "A">>

RECURSIVE Power26(_)
Power26(n) == IF n = 0 THEN 1 ELSE 26 * Power26(n - 1)

RECURSIVE PositionalValue(_, _)
\* the sum over the letters of s from place i on of the digit of the letter
\* (A or a = 1, ..., Z or z = 26) times 26 to the number of letters after it
PositionalValue(s, i) ==
    IF i > Len(s) THEN 0
    ELSE LetterValue(ToUpper(s[i])) * Power26(Len(s) - i) + PositionalValue(s, i + 1)

\* the values the tests of the codec list
SpotValues ==
    { <<<<"A">>, 1>>, <<<<"Z">>, 26>>, <<<<"A", "A">>, 27>>, <<<<"A", "B">>, 28>>,
      <<<<"B", "A">>, 53>>, <<<<"Z", "Z">>, 702>>, <<<<"A", "A", "A">>, 703>>,
      <<<<"a", "A">>, 27>>, <<<<"z", "z">>, 702>> }

\* C10: convert_26_base_to_decimal returns the bijective base-26 value of a
\* label of letters, a lowercase letter counting as its uppercase one (A = 1,
\* Z = 26, AA = 27, AB = 28, BA = 53, ZZ = 702, AAA = 703, aA = 27,
\* zz = 702), and fails with InvalidLabel on a label that holds a character
\* that is no letter.
C10_BijectiveBase26 ==
    (trip # <<>> /\ trip[1] = "decode") =>
        /\ IF \A i \in 1..Len(label) : IsAlpha(label[i])
           THEN decoded[1] = Ok(PositionalValue(label, 1))
           ELSE decoded[1].kind = "InvalidLabel"
        /\ \A sv \in SpotValues : label = sv[1] => decoded[1] = Ok(sv[2])

\* the label aA has been decoded to 27
C10_Witness ==
    /\ trip = <<"decode">>
    /\ label = <<"a", "A">>
    /\ decoded[1] = Ok(27)

\* C11: convert_decimal_to_26_base returns the empty string for n = 0 and for
\* no other n: it fails with InvalidIndex, naming n, for every negative n and
\* returns a label of at least one letter for every n >= 1.
C11_ZeroIsEmptyNegativeFails ==
    (trip # <<>> /\ trip[1] = "encode") =>
        /\ index = 0 => encoded[1] = Res("ok", 0, <<>>)
        /\ index < 0 => encoded[1] = Res("InvalidIndex", index, <<>>)
        /\ index > 0 => encoded[1].kind = "ok" /\ encoded[1].str # <<>>

\* a negative integer has been refused
C11_Witness ==
    /\ trip = <<"encode">>
    /\ index = 0 - MinIndex
    /\ encoded[1].kind = "InvalidIndex"

\* C11 as the n <= 0 rule states it: the empty string is returned for every
\* n <= 0
C11_NonPositiveIsEmpty ==
    (trip # <<>> /\ trip[1] = "encode" /\ index <= 0) =>
        encoded[1] = Res("ok", 0, <<>>)

\* a text made of blanks only
IsBlankText(text) == \A i \in 1..Len(text) : text[i] = " "

\* every cell of the sheet is empty or holds blanks only
IsBlankSheet == \A r \in 1..Len(data) : \A c \in 1..Len(data[r]) : IsBlankText(data[r][c])

\* C12: a grid evaluate() returns has as many rows as the sheet and each of
\* its rows as many columns as the row of the sheet; a sheet without rows
\* evaluates to the empty grid; a sheet whose cells are all empty or blanks
\* only, of any dimensions, evaluates to the grid of zeros of its dimensions.
C12_SameDimensionsBlankIsZero ==
    /\ (pc = "returned" /\ call = "evaluate") =>
          /\ Len(LastResult.grid) = Len(data)
          /\ \A r \in 1..Len(data) : Len(LastResult.grid[r]) = Len(data[r])
    /\ (pc \in {"returned", "raised"} /\ call = "evaluate" /\ data = <<>>) =>
          LastResult = Outcome("ok", <<>>, <<>>)
    /\ (pc \in {"returned", "raised"} /\ call = "evaluate" /\ IsBlankSheet) =>
          /\ LastResult.kind = "ok"
          /\ LastResult.grid = [r \in 1..Len(data) |-> [c \in 1..Len(data[r]) |-> 0]]

\* a sheet of two rows whose cells hold one blank each has evaluated to zeros
C12_Witness ==
    /\ data = << << <<" ">> >>, << <<" ">> >> >>
    /\ pc = "returned"
    /\ LastResult.grid = << <<0>>, <<0>> >>

\* a minus sign followed by decimal digits only
IsUnaryMinusInteger(text) ==
    /\ Len(text) >= 2
    /\ text[1] = "-"
    /\ \A i \in 2..Len(text) : text[i] \in DigitSet

\* C13: a formula made of a unary minus before a single integer, as "=-5",
\* is split into an empty fragment, the minus sign and the digits; the empty
\* fragment is discarded and two tokens are left, so the cell fails with
\* InvalidFormulaError naming the text after "=" and no value is stored.
C13_UnaryMinusIsInvalidFormula ==
    [][(AtFormula /\ IsUnaryMinusInteger(FormulaOf(TopCell))) =>
          /\ pc' = "raised"
          /\ RaisesError("InvalidFormula", FormulaOf(TopCell))
          /\ values' = values
          /\ state' = state
      ]_vars

\* the one-cell sheet [["=-5"]] has failed with InvalidFormulaError for "-5"
C13_Witness ==
    /\ data = << << <<"=", "-", "5">> >> >>
    /\ Len(results) = 1
    /\ LastResult = Outcome("InvalidFormula", <<"-", "5">>, <<>>)

\* C13 as stated: the one-cell sheet [["=-5"]] evaluates to [[5]], the sign
\* being lost, and no error is raised
C13_UnaryMinusLosesSign ==
    (/\ data = << << <<"=", "-", "5">> >> >>
     /\ Len(results) >= 1
     /\ results[1].call = "evaluate") =>
        results[1] = Outcome("ok", <<>>, << <<5>> >>)

\* the marker of a cell
MarkerOf(table, cell) == table[cell[1] + 1][cell[2] + 1]

\* the moves a marker may make in one step: none, NotStarted -> InProgress,
\* InProgress -> Done
IsMarkerMove(before, after) ==
    \/ after = before
    \/ before = NOT_EVALUATED /\ after = EVALUATING
    \/ before = EVALUATING /\ after = EVALUATED

\* C14: in every step of every evaluate() or evaluate_cell() call the marker
\* of each cell stays or moves NotStarted -> InProgress or InProgress -> Done, so it never moves
\* backwards, never skips InProgress and never enters InProgress twice; and
\* the content of a cell is read only in the step after the one that moved
\* its marker from NotStarted to InProgress, hence at most once.
C14_MarkersOnlyMoveForward ==
    [][/\ \A cell \in Cells : IsMarkerMove(MarkerOf(state, cell), MarkerOf(state', cell))
       /\ pc' = "content" =>
             LET entered == CellOfArguments(stack'[Len(stack')].r, stack'[Len(stack')].c)
             IN  /\ MarkerOf(state, entered) = NOT_EVALUATED
                 /\ MarkerOf(state', entered) = EVALUATING
      ]_vars

\* the three markers are present at once while a cell is being read
C14_Witness ==
    /\ pc = "content"
    /\ \E a \in Cells : MarkerOf(state, a) = NOT_EVALUATED
    /\ \E b \in Cells : MarkerOf(state, b) = EVALUATED
    /\ \E c \in Cells : c # TopCell /\ MarkerOf(state, c) = EVALUATING

\* C15: a cell whose marker is not Done holds the initial value 0 in the
\* table of values, from the construction of the sheet on, and the value of
\* a cell whose marker is Done is changed by no step of any evaluate() or
\* evaluate_cell() call.
C15_DoneValuesAreFinal ==
    /\ \A cell \in Cells : MarkerOf(values, cell) = 0 /\ MarkerOf(state, cell) = NOT_EVALUATED
    /\ [][\A cell \in Cells :
            /\ MarkerOf(state, cell) = EVALUATED =>
                  MarkerOf(values', cell) = MarkerOf(values, cell)
            /\ MarkerOf(state', cell) # EVALUATED => MarkerOf(values', cell) = 0
         ]_vars

\* evaluate_cell() has been called and has returned, and a second call has
\* ended, on a sheet with a computed cell that holds a value other than 0 and
\* a cell that was never computed
C15_Witness ==
    /\ Len(results) = 2
    /\ results[1].call = "evaluate_cell" /\ results[1].kind = "ok"
    /\ \E cell \in Cells : MarkerOf(state, cell) = EVALUATED /\ MarkerOf(values, cell) # 0
    /\ \E cell \in Cells : MarkerOf(state, cell) # EVALUATED

\* the cells of the active evaluate_cell calls, outermost first
CallChain == [i \in 1..Len(stack) |-> CellOfArguments(stack[i].r, stack[i].c)]

\* no call on the instance has raised an error so far
NoErrorSoFar == \A i \in 1..Len(results) : results[i].kind = "ok"

\* C16: as long as no error has been raised, at every point of a call the
\* cells marked InProgress are exactly the cells of the active
\* evaluate_cell calls, these are pairwise distinct, and the recursion is no
\* deeper than the number of cells of the sheet.
C16_InProgressIsTheCallChain ==
    NoErrorSoFar =>
        /\ {cell \in Cells : MarkerOf(state, cell) = EVALUATING}
              = {CallChain[i] : i \in 1..Len(stack)}
        /\ Cardinality({CallChain[i] : i \in 1..Len(stack)}) = Len(stack)
        /\ Len(stack) <= rows * cols

\* the recursion is as deep as the sheet has cells: A1 -> B1 -> A2 -> B2
C16_Witness ==
    /\ NoErrorSoFar
    /\ rows * cols = 4
    /\ CallChain = << <<0, 0>>, <<0, 1>>, <<1, 0>>, <<1, 1>> >>
    /\ pc = "content"

\* C17: every evaluate() call that has started comes to an end: it returns a
\* grid or raises an error, whatever the cells hold, cycles of references
\* included.
C17_EvaluateTerminates ==
    Running ~> (pc \in {"returned", "raised"})

\* two calls have come to an end on a sheet of four cells with a cycle of
\* references
C17_Witness ==
    /\ Len(results) = MaxCalls
    /\ pc = "raised"
    /\ rows * cols = 4
    /\ HasCycle

RECURSIVE ReachedFrom(_)
\* the cells reached from the cells of S through references, S included
ReachedFrom(S) ==
    LET more == S \cup UNION {RefsOf(cell) : cell \in S}
    IN  IF more = S THEN S ELSE ReachedFrom(more)

\* the cell refers to itself, directly or through a chain of references
IsOnCycle(cell) == cell \in ReachedFrom(RefsOf(cell))

\* the cell whose label is the text name, if there is one
CellsNamed(name) == {cell \in Cells : _cell_name(cell[1], cell[2]) = name}

\* C18: whenever a call raises CircularReferenceError, the cell
\* the error names lies on a cycle of references: it refers to itself
\* directly or through a chain of references.
C18_NamedCellIsOnCycle ==
    (pc = "raised" /\ LastResult.kind = "CircularReference") =>
        \E cell \in CellsNamed(LastResult.str) : IsOnCycle(cell)

\* on the sheet [["=B1", "=B1"]] the first call names B1, the cell that is
\* re-entered, and not A1, the cell the sweep started at
C18_Witness ==
    /\ data = << << <<"=", "B", "1">>, <<"=", "B", "1">> >> >>
    /\ Len(results) = 1
    /\ LastResult = Outcome("CircularReference", <<"B", "1">>, <<>>)
    /\ IsOnCycle(<<0, 1>>) /\ ~IsOnCycle(<<0, 0>>)

\* the step ends a call with an error
RaisesNow == Len(results') > Len(results) /\ results'[Len(results')].kind # "ok"

\* C19: when a call fails, with whatever error, every cell of the active
\* call chain is left marked InProgress; after a failed evaluate() no step of
\* a later evaluate() changes a marker or a value, and every later
\* evaluate() on the instance fails with CircularReferenceError naming the
\* first cell, in row-major order, that is not Done.
C19_FailureLeavesChainInProgress ==
    [][/\ RaisesNow =>
             \A i \in 1..Len(stack) : MarkerOf(state', CallChain[i]) = EVALUATING
       /\ (~NoErrorSoFar /\ OnlyEvaluate /\ call' = "evaluate") =>
             /\ state' = state
             /\ values' = values
             /\ Len(results') > Len(results) =>
                   results'[Len(results')] =
                       Outcome("CircularReference",
                               _cell_name(CellAt(FirstNotDoneFrom(0))[1],
                                          CellAt(FirstNotDoneFrom(0))[2]),
                               <<>>)
      ]_vars

\* on the sheet [["=B1", "=A0"]] the first call has failed with
\* OutOfRangeError for A0, leaving A1 and B1 InProgress, and the second call
\* with CircularReferenceError at A1
C19_Witness ==
    /\ data = << << <<"=", "B", "1">>, <<"=", "A", "0">> >> >>
    /\ state = << <<EVALUATING, EVALUATING>> >>
    /\ results = << Outcome("OutOfRange", <<"A", "0">>, <<>>),
                    Outcome("CircularReference", <<"A", "1">>, <<>>) >>

\* the token is a reference or an integer by its form
IsOperandText(token) == IsReference(token) \/ PyInt(token).kind = "ok"

\* the token is one of the two operators
IsOperatorToken(token) == token = <<"+">> \/ token = <<"-">>

\* C20: the "Invalid operator" branch of _evaluate_formula is never taken:
\* no call ends with that error; whenever a formula of three tokens has had
\* both its operands evaluated without error, its middle token is "+" or
\* "-"; and so it is already when the first and the third token of a formula
\* of three tokens are references or integers by their form.
C20_InvalidOperatorUnreachable ==
    /\ \A i \in 1..Len(results) : results[i].kind # "InvalidOperator"
    /\ (pc = "formula" /\ Len(top.tokens) = 3 /\ Len(top.vals) = 2) =>
          IsOperatorToken(top.tokens[2])
    /\ \A cell \in Cells :
          IsFormulaCell(cell) =>
             LET tokens == Tokenize(FormulaOf(cell))
             IN  (Len(tokens) = 3 /\ IsOperandText(tokens[1]) /\ IsOperandText(tokens[3]))
                    => IsOperatorToken(tokens[2])

\* the formula "B1-1" has had both its operands evaluated
C20_Witness ==
    /\ data[1][1] = <<"=", "B", "1", "-", "1">>
    /\ pc = "formula"
    /\ top.tokens = << <<"B", "1">>, <<"-">>, <<"1">> >>
    /\ top.vals = <<1, 1>>

====
